---- MODULE Spec2Model ----
(***************************************************************************)
(* Model of update-dbaccess-tables-from-condition: processtable.py and the *)
(* run of main.py.  Codes and cell values are strings, modelled as         *)
(* sequences of one-character strings so that slicing, prefixing and       *)
(* comparison are computed as the Python code computes them.               *)
(***************************************************************************)
EXTENDS Integers, Sequences, FiniteSets, TLC

VARIABLES
    pc,              \* position of the run of main.py
    db,              \* committed contents of the two databases: db[d][table] = rows
    db_keys,         \* db_keys[d]: result of get_db_keys_from_env for database d
    df_mappings,     \* main.py df_mappings: list of [OLD_CODE, NEW_CODE]
    df_matches,      \* main.py df_matches_0 / df_matches_1, indexed by database
    update_counts,   \* main.py update_counts_0 / update_counts_1, indexed by database
    exception,       \* the exception that ended the run, or "none"
    inspected,       \* the tables whose columns the latest scan read
    tx,              \* history of the transactions run so far
    old_code,        \* argument of a direct call of generate_unique_code
    existing_codes,  \* argument of a direct call of generate_unique_code
    gen_result       \* outcome of that call

vars == <<pc, db, db_keys, df_mappings, df_matches, update_counts, exception,
          inspected, tx, old_code, existing_codes, gen_result>>

genVars == <<old_code, existing_codes, gen_result>>
runVars == <<pc, db, db_keys, df_mappings, df_matches, update_counts, exception,
             inspected, tx>>

-----------------------------------------------------------------------------
(* Bounds of the model *)

MaxLen == 2          \* longest code handed to generate_unique_code directly
MaxClients == 2      \* rows of the primary table in a full run
MaxRows == 2         \* rows of the orders table of the first database
MaxMapClients == 2   \* freely chosen rows of the primary table in a mapping run

-----------------------------------------------------------------------------
(* Strings *)

NL == "\n"

Letters ==
    {"A","B","C","D","E","F","G","H","I","J","K","L","M",
     "N","O","P","Q","R","S","T","U","V","W","X","Y","Z",
     "a","b","c","d","e","f","g","h","i","j","k","l","m",
     "n","o","p","q","r","s","t","u","v","w","x","y","z"}

\* All sequences over S of length 0..n
SeqUpTo(S, n) == UNION {[1..k -> S] : k \in 0..n}

\* re.match(r'.*[A-Za-z]', code) ending exactly at position m: a letter at m,
\* and no newline before it ('.' does not match a newline)
LetterMatchEndsAt(code, m) ==
    /\ m >= 1
    /\ code[m] \in Letters
    /\ \A i \in 1..(m - 1) : code[i] # NL

\* '$' matches at the end of the string and just before a final newline
has_trailing_letter(code) ==
    LET n == Len(code) IN
    \/ LetterMatchEndsAt(code, n)
    \/ (n >= 2 /\ code[n] = NL /\ LetterMatchEndsAt(code, n - 1))

-----------------------------------------------------------------------------
(* generate_unique_code *)

Prefixes == <<"9", "8", "7", "6", "5", "4", "3", "2", "1", "0">>

\* old_code[:-1]
base_code(code) == SubSeq(code, 1, Len(code) - 1)

Candidate(i, code) == <<Prefixes[i]>> \o base_code(code)

Return(v) == [kind |-> "return", value |-> v]
Raise(e) == [kind |-> "raise", value |-> <<e>>]
NoResult == [kind |-> "none", value |-> <<>>]

RECURSIVE TryPrefixes(_, _, _)
TryPrefixes(i, code, existing) ==
    IF i > Len(Prefixes) THEN Raise("ValueError")
    ELSE IF Candidate(i, code) \notin existing THEN Return(Candidate(i, code))
    ELSE TryPrefixes(i + 1, code, existing)

\* Variant: the loop stops before the last prefix
generate_unique_code_short(code, existing) ==
    LET r == TryPrefixes(1, code, existing)
    IN IF r.kind = "return" /\ r.value = Candidate(Len(Prefixes), code)
       THEN Raise("ValueError") ELSE r

generate_unique_code(code, existing) == TryPrefixes(1, code, existing)

-----------------------------------------------------------------------------
(* The two databases of a run: catalog, key registry and contents *)

Databases == {0, 1}

client_table == "clients"
client_key_field == "code"

\* inspector.get_table_names() of each database, in catalog order
TableNames(d) == IF d = 0 THEN <<"clients", "orders">> ELSE <<"invoices", "payments">>

Col(n, t, l) == [name |-> n, type |-> t, length |-> l]

\* inspector.get_columns(table_name): name, declared type, declared length
\* (length 0 stands for a type without a length)
Columns(t) ==
    CASE t = "clients"  -> <<Col("code", "VARCHAR", 10)>>
      [] t = "orders"   -> <<Col("order_id", "INTEGER", 0), Col("ref_code", "VARCHAR", 10),
                             Col("alt_code", "VARCHAR", 6), Col("memo", "VARCHAR", 50),
                             Col("tag", "CHAR", 5)>>
      [] t = "invoices" -> <<Col("inv_id", "INTEGER", 0), Col("ref_code", "VARCHAR", 10)>>
      [] t = "payments" -> <<Col("pay_id", "INTEGER", 0), Col("cust", "CHAR", 20)>>

\* Cell values used in the tables
c1A == <<"1", "A">>
c1B == <<"1", "B">>
cAB == <<"A", "B">>
c12 == <<"1", "2">>
cX1A == <<"X", "1", "A", "-">>
c1ANL == <<"1", "A", NL>>

ClientRow(code) == [code |-> code]

OrderRow(id, ref, alt) ==
    [order_id |-> id, ref_code |-> ref, alt_code |-> alt, memo |-> c1A, tag |-> c1A]

\* The rows an orders table may hold, in a fixed order
OrderRows ==
    <<OrderRow(500, c1A, c1B), OrderRow(500, c1A, c12),
      OrderRow(500, cX1A, c1B), OrderRow(500, cX1A, c12),
      OrderRow(501, c1A, c12)>>

\* Tables of up to n rows; the physical order of the rows of a table carries
\* no meaning, so one order per multiset of rows is enough
SortedIndexes(k) ==
    {f \in [1..k -> DOMAIN OrderRows] : \A i \in 1..(k - 1) : f[i] <= f[i + 1]}

OrderTables(n) ==
    UNION {{[i \in 1..k |-> OrderRows[ix[i]]] : ix \in SortedIndexes(k)} : k \in 0..n}

\* Contents of the second database
InvoiceRow(id, ref) == [inv_id |-> id, ref_code |-> ref]
PaymentRow(id, cust) == [pay_id |-> id, cust |-> cust]

Db(invoices, payments) == [invoices |-> invoices, payments |-> payments]

SecondDatabases ==
    {Db(<<>>, <<>>),
     Db(<<InvoiceRow(700, cX1A)>>, <<PaymentRow(900, c1B)>>),
     Db(<<InvoiceRow(700, c1A)>>, <<PaymentRow(900, c1A)>>)}

\* get_db_keys_from_env: the tables with configured key fields
KeyRegistries0 ==
    {[clients |-> <<"code">>],
     [clients |-> <<"code">>, orders |-> <<"order_id">>],
     [clients |-> <<"code">>, orders |-> <<"order_id", "alt_code">>]}

KeyRegistry1 == [invoices |-> <<"inv_id">>, payments |-> <<"pay_id">>]

\* db_keys.get(table_name, [])
KeysFor(keys, t) == IF t \in DOMAIN keys THEN keys[t] ELSE <<>>

Range(s) == {s[i] : i \in DOMAIN s}
-----------------------------------------------------------------------------
(* find_code_matches_in_db *)

MinColLength == 6
MaxColLength == 20

\* 'CHAR' in col_type or 'TEXT' in col_type or 'VARCHAR' in col_type
AlphanumericTypes == {"CHAR", "VARCHAR", "TEXT", "LONGCHAR"}

\* Variant: the declared length is not tested
ColumnQualifies_anylength(column) == column.type \in AlphanumericTypes

ColumnQualifies(column) ==
    /\ column.type \in AlphanumericTypes
    /\ column.length # 0
    /\ MinColLength <= column.length
    /\ column.length <= MaxColLength

ColumnNames(columns) == [i \in DOMAIN columns |-> columns[i].name]

\* matching_columns after the loop over the columns of the table
QualifyingColumns(t) == ColumnNames(SelectSeq(Columns(t), ColumnQualifies))

\* [col for col in matching_columns if col not in key_columns]
WithoutKeys(matching_columns, key_columns) ==
    SelectSeq(matching_columns, LAMBDA col : col \notin Range(key_columns))

\* SELECT key_columns, matching_columns FROM table: the statement is
\* malformed when the column list is empty, and fails on an unknown column
QueryFails(t, key_columns, matching_columns) ==
    \/ matching_columns = <<>>
    \/ \E k \in Range(key_columns) : k \notin Range(ColumnNames(Columns(t)))

\* df_table: the rows, restricted to the selected columns
FetchRows(rows, key_columns, matching_columns) ==
    [i \in DOMAIN rows |->
        [c \in Range(key_columns) \cup Range(matching_columns) |-> rows[i][c]]]

\* code occurs somewhere inside cell
Contains(cell, code) ==
    \E k \in 0..(Len(cell) - Len(code)) : SubSeq(cell, k + 1, k + Len(code)) = code

\* Variant: substring matching
CellEquals_substring(cell, code) == Contains(cell, code)

\* df_table[col_name] == old_code, for one cell
CellEquals(cell, code) == cell = code

\* df_mappings.loc[df_mappings['OLD_CODE'] == old_code, 'NEW_CODE'].values[0]
NewCodeFor(mappings, code) ==
    LET first == CHOOSE i \in DOMAIN mappings :
                     /\ mappings[i].OLD_CODE = code
                     /\ \A j \in 1..(i - 1) : mappings[j].OLD_CODE # code
    IN mappings[first].NEW_CODE

MatchRecord(row, found_value, found_field, new_value) ==
    [row |-> row, FOUND_VALUE |-> found_value, FOUND_FIELD |-> found_field,
     NEW_VALUE |-> new_value]

\* df_code_matches for one old code and one column
CodeMatchesInColumn(df_table, col_name, code, new_code) ==
    LET hits == SelectSeq(df_table, LAMBDA row : CellEquals(row[col_name], code))
    IN [i \in DOMAIN hits |-> MatchRecord(hits[i], code, col_name, new_code)]

RECURSIVE CodeMatchesFrom(_, _, _, _, _)
CodeMatchesFrom(j, matching_columns, df_table, code, new_code) ==
    IF j > Len(matching_columns) THEN <<>>
    ELSE CodeMatchesInColumn(df_table, matching_columns[j], code, new_code)
         \o CodeMatchesFrom(j + 1, matching_columns, df_table, code, new_code)

\* df_table_matches: the loop over df_mappings['OLD_CODE']
RECURSIVE TableMatchesFrom(_, _, _, _)
TableMatchesFrom(i, mappings, matching_columns, df_table) ==
    IF i > Len(mappings) THEN <<>>
    ELSE CodeMatchesFrom(1, matching_columns, df_table, mappings[i].OLD_CODE,
                         NewCodeFor(mappings, mappings[i].OLD_CODE))
         \o TableMatchesFrom(i + 1, mappings, matching_columns, df_table)

\* What the environment does to the scan of one table
Faults == {"none", "count", "columns", "fetch"}

Skip(seen) == [kind |-> "skip", matches |-> <<>>, inspected |-> seen]

\* Variant: the row count is not tested
IsEmptyTable_ignored(rows) == FALSE

\* result['countregs'][0] == 0
IsEmptyTable(rows) == Len(rows) = 0

\* Variant: tables without key columns are scanned too
HasKeyColumns_ignored(key_columns) == TRUE

\* if key_columns:
HasKeyColumns(key_columns) == key_columns # <<>>

\* One iteration of the loop over the tables
ScanTable(t, rows, keys, mappings, fault) ==
    LET key_columns == KeysFor(keys, t)
        matching_columns == WithoutKeys(QualifyingColumns(t), key_columns)
        matches == TableMatchesFrom(1, mappings, matching_columns,
                                    FetchRows(rows, key_columns, matching_columns))
    IN IF fault = "count" THEN Skip(FALSE)
       ELSE IF IsEmptyTable(rows) THEN Skip(FALSE)
       ELSE IF fault = "columns"
            THEN [kind |-> "raise", matches |-> <<>>, inspected |-> TRUE]
       ELSE IF QualifyingColumns(t) = <<>> THEN Skip(TRUE)
       ELSE IF ~HasKeyColumns(key_columns) THEN Skip(TRUE)
       ELSE IF fault = "fetch" \/ QueryFails(t, key_columns, matching_columns)
            THEN Skip(TRUE)
       ELSE IF matches = <<>> THEN Skip(TRUE)
       ELSE [kind |-> "matches", matches |-> matches, inspected |-> TRUE]

\* The loop over the tables, from table i on; acc is matches_dict so far
RECURSIVE ScanFrom(_, _, _, _, _, _, _)
ScanFrom(i, tables, contents, keys, mappings, fault, acc) ==
    IF i > Len(tables) THEN [kind |-> "return", value |-> acc.dict, inspected |-> acc.seen]
    ELSE LET t == tables[i]
             r == ScanTable(t, contents[t], keys, mappings, fault[t])
             seen == IF r.inspected THEN acc.seen \cup {t} ELSE acc.seen
         IN IF r.kind = "raise"
            THEN [kind |-> "raise", value |-> <<>>, inspected |-> seen]
            ELSE ScanFrom(i + 1, tables, contents, keys, mappings, fault,
                          [dict |-> IF r.kind = "matches"
                                    THEN acc.dict @@ (t :> r.matches) ELSE acc.dict,
                           seen |-> seen])

find_code_matches_in_db(mappings, tables, contents, keys, fault) ==
    ScanFrom(1, tables, contents, keys, mappings, fault, [dict |-> <<>>, seen |-> {}])
-----------------------------------------------------------------------------
(* Transactions: with engine.begin() as connection *)

\* Leaving the block normally commits the work; an exception that leaves the
\* block rolls it back
TransactionResult(pre, work, escaped) == IF escaped THEN pre ELSE work

-----------------------------------------------------------------------------
(* process_client_table *)

KeyValues(rows) == [i \in DOMAIN rows |-> rows[i][client_key_field]]

\* df_erroneous: the rows whose key has a trailing letter, in query order
ErroneousCodes(rows) == SelectSeq(KeyValues(rows), has_trailing_letter)

Mapping(code, new_code) == [OLD_CODE |-> code, NEW_CODE |-> new_code]

\* Variant: the new code is not recorded
AddExisting_forgotten(existing, new_code) == existing

\* existing_codes.add(new_code)
AddExisting(existing, new_code) == existing \cup {new_code}

\* Variant: a row whose generation fails is skipped
RECURSIVE GenerateFrom_skipping(_, _, _, _)
GenerateFrom_skipping(i, erroneous, existing, mappings) ==
    IF i > Len(erroneous) THEN Return(mappings)
    ELSE LET g == generate_unique_code(erroneous[i], existing)
         IN IF g.kind = "raise"
            THEN GenerateFrom_skipping(i + 1, erroneous, existing, mappings)
            ELSE GenerateFrom_skipping(i + 1, erroneous, AddExisting(existing, g.value),
                                       Append(mappings, Mapping(erroneous[i], g.value)))

\* The generation loop, from erroneous row i on
RECURSIVE GenerateFrom(_, _, _, _)
GenerateFrom(i, erroneous, existing, mappings) ==
    IF i > Len(erroneous) THEN Return(mappings)
    ELSE LET g == generate_unique_code(erroneous[i], existing)
         IN IF g.kind = "raise" THEN g
            ELSE GenerateFrom(i + 1, erroneous, AddExisting(existing, g.value),
                              Append(mappings, Mapping(erroneous[i], g.value)))

\* existing_codes starts as the set of all key values
GenerateMappings(rows) ==
    GenerateFrom(1, ErroneousCodes(rows), Range(KeyValues(rows)), <<>>)

\* UPDATE client_table SET key = :new_code WHERE key = :old_code
RenameRows(rows, m) ==
    [i \in DOMAIN rows |->
        IF rows[i][client_key_field] = m.OLD_CODE
        THEN [rows[i] EXCEPT ![client_key_field] = m.NEW_CODE]
        ELSE rows[i]]

\* The statements k..last of the rename loop; statement failAt raises
RECURSIVE RenameFrom(_, _, _, _)
RenameFrom(k, mappings, rows, failAt) ==
    IF k > Len(mappings) \/ k = failAt THEN rows
    ELSE RenameFrom(k + 1, mappings, RenameRows(rows, mappings[k]), failAt)

\* Variant: the failure is caught inside the block
ExceptionLeavesRename_swallowed(failed) == FALSE

\* No handler surrounds connection.execute: a failure leaves the block
ExceptionLeavesRename(failed) == failed

-----------------------------------------------------------------------------
(* update_old_codes_in_db *)

\* The UPDATE statements in the order they are issued: matches_dict.items()
\* in insertion order, df_matches.iterrows() in row order
RECURSIVE StatementsFrom(_, _, _)
StatementsFrom(i, tables, matches_dict) ==
    IF i > Len(tables) THEN <<>>
    ELSE (IF tables[i] \in DOMAIN matches_dict
          THEN [j \in DOMAIN matches_dict[tables[i]] |->
                    [table |-> tables[i], rec |-> matches_dict[tables[i]][j]]]
          ELSE <<>>)
         \o StatementsFrom(i + 1, tables, matches_dict)

\* WHERE found_field = :found_value AND key_col = :key_col AND ...
RowSelected(row, rec, key_columns) ==
    /\ row[rec.FOUND_FIELD] = rec.FOUND_VALUE
    /\ \A k \in Range(key_columns) : row[k] = rec.row[k]

\* UPDATE table SET found_field = :new_value WHERE ...
UpdateRows(rows, rec, key_columns) ==
    [i \in DOMAIN rows |->
        IF RowSelected(rows[i], rec, key_columns)
        THEN [rows[i] EXCEPT ![rec.FOUND_FIELD] = rec.NEW_VALUE]
        ELSE rows[i]]

\* result.rowcount
RowCount(rows, rec, key_columns) ==
    Cardinality({i \in DOMAIN rows : RowSelected(rows[i], rec, key_columns)})

\* With no key column the WHERE clause ends in a dangling AND
StatementMalformed(key_columns) == key_columns = <<>>

\* update_counts[table_name] = 0 on entering the table's loop
EnterTable(counts, t) == IF t \in DOMAIN counts THEN counts ELSE counts @@ (t :> 0)

\* Statements k..last; st holds the uncommitted contents and the counts
RECURSIVE UpdateFrom(_, _, _, _, _)
UpdateFrom(k, stmts, keys, failAt, st) ==
    IF k > Len(stmts) THEN [contents |-> st.contents, counts |-> st.counts, failed |-> 0]
    ELSE LET t == stmts[k].table
             rec == stmts[k].rec
             key_columns == KeysFor(keys, t)
             counts == EnterTable(st.counts, t)
         IN IF k = failAt \/ StatementMalformed(key_columns)
            THEN [contents |-> st.contents, counts |-> counts, failed |-> k]
            ELSE UpdateFrom(k + 1, stmts, keys, failAt,
                     [contents |-> [st.contents EXCEPT
                                       ![t] = UpdateRows(@, rec, key_columns)],
                      counts |-> [counts EXCEPT
                                       ![t] = @ + RowCount(st.contents[t], rec,
                                                           key_columns)]])

\* except Exception inside the with block swallows the re-raised error, so
\* no exception ever leaves the block
ExceptionLeavesUpdate(failed) == FALSE
-----------------------------------------------------------------------------
(* Initial states *)

Dict0 == <<>>   \* an empty dict

Indexed(x0, x1) == [d \in Databases |-> IF d = 0 THEN x0 ELSE x1]

ClientTable(codes) == [i \in DOMAIN codes |-> ClientRow(codes[i])]

\* Key values of the primary table in a full run
ClientCodes == {c1A, c1B}

\* Key values of the primary table in a mapping run
MapCodes == {c1A, c1B, cAB, c12, c1ANL}

\* Rows holding the n highest prefixed variants of base "1": 91, 81, ...
OccupiedCodes(n) == [i \in 1..n |-> <<Prefixes[i], "1">>]
OccupiedChoices == {0} \cup ((Len(Prefixes) - 2)..Len(Prefixes))

GenChars == {"1", "A", "b", "-", NL}

RunIdle ==
    /\ df_mappings = <<>>
    /\ df_matches = Indexed(Dict0, Dict0)
    /\ update_counts = Indexed(Dict0, Dict0)
    /\ exception = "none"
    /\ inspected = {}
    /\ tx = <<>>

GenIdle ==
    /\ old_code = <<>>
    /\ existing_codes = {}
    /\ gen_result = NoResult

\* A full run of main.py over small databases
Init ==
    /\ pc = "process_client_table"
    /\ \E codes \in SeqUpTo(ClientCodes, MaxClients), orders \in OrderTables(MaxRows),
          second \in SecondDatabases :
           db = Indexed([clients |-> ClientTable(codes), orders |-> orders], second)
    /\ \E k0 \in KeyRegistries0 : db_keys = Indexed(k0, KeyRegistry1)
    /\ RunIdle
    /\ GenIdle

\* A run of main.py over primary tables that crowd the candidate codes
InitMap ==
    /\ pc = "process_client_table"
    /\ \E codes \in SeqUpTo(MapCodes, MaxMapClients), n \in OccupiedChoices,
          orders \in {<<>>, <<OrderRow(500, c1A, c1B)>>} :
           db = Indexed([clients |-> ClientTable(codes \o OccupiedCodes(n)),
                         orders |-> orders],
                        Db(<<InvoiceRow(700, c1A)>>, <<>>))
    /\ db_keys = Indexed([clients |-> <<"code">>, orders |-> <<"order_id">>], KeyRegistry1)
    /\ RunIdle
    /\ GenIdle

\* A direct call of generate_unique_code
InitGen ==
    /\ pc = "idle"
    /\ db = Indexed([clients |-> <<>>, orders |-> <<>>], Db(<<>>, <<>>))
    /\ db_keys = Indexed(Dict0, Dict0)
    /\ RunIdle
    /\ old_code \in SeqUpTo(GenChars, MaxLen)
    /\ \E taken \in SUBSET DOMAIN Prefixes, others \in {{}, {old_code}} :
           existing_codes = {Candidate(i, old_code) : i \in taken} \cup others
    /\ gen_result = NoResult

-----------------------------------------------------------------------------
(* Actions *)

TxEntry(call, d, pre, post, failed, issued) ==
    [call |-> call, d |-> d, pre |-> pre, post |-> post, failed |-> failed,
     issued |-> issued]

\* main.py line 23: process_client_table(access_db_0, ..., update_clients=True)
ProcessClientTable ==
    /\ pc = "process_client_table"
    /\ LET rows == db[0][client_table]
           g == GenerateMappings(rows)
       IN IF g.kind = "raise"
          THEN /\ pc' = "raised"
               /\ exception' = "ValueError"
               /\ UNCHANGED <<db, df_mappings, tx>>
          ELSE \E failAt \in 0..Len(g.value) :
                 LET work == RenameFrom(1, g.value, rows, failAt)
                     escaped == ExceptionLeavesRename(failAt # 0)
                     post == TransactionResult(rows, work, escaped)
                     issued == IF failAt = 0 THEN Len(g.value) ELSE failAt
                 IN /\ db' = [db EXCEPT ![0][client_table] = post]
                    /\ tx' = Append(tx, TxEntry("process_client_table", 0,
                                                db[0], db'[0], failAt, issued))
                    /\ pc' = IF escaped THEN "raised" ELSE "find_0"
                    /\ exception' = IF escaped THEN "DBAPIError" ELSE "none"
                    /\ df_mappings' = IF escaped THEN df_mappings ELSE g.value
    /\ UNCHANGED <<db_keys, df_matches, update_counts, inspected>>
    /\ UNCHANGED genVars

FindPc(d) == IF d = 0 THEN "find_0" ELSE "find_1"
UpdatePc(d) == IF d = 0 THEN "update_0" ELSE "update_1"
AfterUpdatePc(d) == IF d = 0 THEN "find_1" ELSE "done"

\* main.py lines 35 and 48: find_code_matches_in_db(df_mappings, access_db_d, db_keys)
FindCodeMatchesInDb(d) ==
    /\ pc = FindPc(d)
    /\ \E fault \in [Range(TableNames(d)) -> Faults] :
         LET r == find_code_matches_in_db(df_mappings, TableNames(d), db[d],
                                          db_keys[d], fault)
         IN /\ inspected' = r.inspected
            /\ pc' = IF r.kind = "raise" THEN "raised" ELSE UpdatePc(d)
            /\ exception' = IF r.kind = "raise" THEN "DBAPIError" ELSE "none"
            /\ df_matches' = IF r.kind = "raise" THEN df_matches
                             ELSE [df_matches EXCEPT ![d] = r.value]
    /\ UNCHANGED <<db, db_keys, df_mappings, update_counts, tx>>
    /\ UNCHANGED genVars

\* main.py lines 42 and 55: update_old_codes_in_db(df_matches_d, access_db_d, db_keys)
UpdateOldCodesInDb(d) ==
    /\ pc = UpdatePc(d)
    /\ LET stmts == StatementsFrom(1, TableNames(d), df_matches[d])
       IN \E failAt \in 0..Len(stmts) :
            LET r == UpdateFrom(1, stmts, db_keys[d], failAt,
                                [contents |-> db[d], counts |-> Dict0])
                escaped == ExceptionLeavesUpdate(r.failed # 0)
                post == TransactionResult(db[d], r.contents, escaped)
                issued == IF r.failed = 0 THEN Len(stmts) ELSE r.failed
            IN /\ db' = [db EXCEPT ![d] = post]
               /\ tx' = Append(tx, TxEntry("update_old_codes_in_db", d,
                                           db[d], post, r.failed, issued))
               /\ pc' = IF escaped THEN "raised" ELSE AfterUpdatePc(d)
               /\ exception' = IF escaped THEN "DBAPIError" ELSE "none"
               /\ update_counts' = IF escaped THEN update_counts
                                   ELSE [update_counts EXCEPT ![d] = r.counts]
    /\ inspected' = {}
    /\ UNCHANGED <<db_keys, df_mappings, df_matches>>
    /\ UNCHANGED genVars

\* A direct call generate_unique_code(old_code, existing_codes)
GenerateUniqueCode ==
    /\ pc = "idle"
    /\ gen_result = NoResult
    /\ gen_result' = generate_unique_code(old_code, existing_codes)
    /\ UNCHANGED <<old_code, existing_codes>>
    /\ UNCHANGED runVars

Next ==
    \/ ProcessClientTable
    \/ \E d \in Databases : FindCodeMatchesInDb(d)
    \/ \E d \in Databases : UpdateOldCodesInDb(d)

NextGen == GenerateUniqueCode

Spec == Init /\ [][Next]_vars
SpecMap == InitMap /\ [][Next]_vars
SpecGen == InitGen /\ [][NextGen]_vars
-----------------------------------------------------------------------------
(* Properties of generate_unique_code, checked under SpecGen *)

\* The last character is in [A-Za-z]
EndsInLetter(code) == Len(code) > 0 /\ code[Len(code)] \in Letters

\* C1: for every old_code ending in a letter and every used set for which
\* generate_unique_code returns, the new code has the length of old_code,
\* does not end in a letter, and is not in the used set passed in.
C1_GeneratedCodeConforms ==
    (gen_result.kind = "return" /\ EndsInLetter(old_code)) =>
        /\ Len(gen_result.value) = Len(old_code)
        /\ ~EndsInLetter(gen_result.value)
        /\ gen_result.value \notin existing_codes

\* The ten candidates of a code, written out: digit d in front of the code
\* without its last character
DigitsDown == <<"9", "8", "7", "6", "5", "4", "3", "2", "1", "0">>
TenCandidates(code) ==
    [i \in 1..10 |-> <<DigitsDown[i]>> \o [j \in 1..(Len(code) - 1) |-> code[j]]]
FreeCandidates(code, used) == {i \in 1..10 : TenCandidates(code)[i] \notin used}

\* C5: generate_unique_code returns the first of the ten candidates, from
\* prefix 9 down to 0, that is not in the used set, and raises exactly when
\* all ten are in it.
C5_FirstFreeCandidateOrExhausted ==
    gen_result # NoResult =>
        LET free == FreeCandidates(old_code, existing_codes)
        IN IF free = {}
           THEN gen_result.kind = "raise"
           ELSE /\ gen_result.kind = "return"
                /\ \E i \in free :
                      /\ \A j \in free : i <= j
                      /\ gen_result.value = TenCandidates(old_code)[i]

\* C5 witness: a code with a trailing letter whose ten candidates are all in
\* use, and the call raised
C5_Witness_Exhausted ==
    /\ has_trailing_letter(old_code)
    /\ FreeCandidates(old_code, existing_codes) = {}
    /\ gen_result.kind = "raise"
-----------------------------------------------------------------------------
(* Properties of the run of main.py, checked under Spec and SpecMap *)

\* The transactions run so far by one function
TxOf(call) == {i \in DOMAIN tx : tx[i].call = call}

Renames == TxOf("process_client_table")
Updates == TxOf("update_old_codes_in_db")

\* The records of df_matches[d], as (table, record) pairs
RecordsOf(d) ==
    UNION {{<<t, df_matches[d][t][j]>> : j \in DOMAIN df_matches[d][t]} :
              t \in DOMAIN df_matches[d]}

\* The database whose scan ran last
ScannedDb == Cardinality(Updates)

\* C2: when a statement of the cross-table update transaction fails, the
\* database is left as it was before the transaction started.
C2_UpdateTransactionAtomic ==
    \A i \in Updates : tx[i].failed # 0 => tx[i].post = tx[i].pre

\* C3: when a statement of the cross-table update transaction fails, the
\* failure reaches the caller: the run stops with the exception and no count
\* map is returned.
C3_UpdateFailureSurfaces ==
    \A i \in Updates :
        tx[i].failed # 0 =>
            /\ i = Len(tx)
            /\ pc = "raised"
            /\ exception # "none"
            /\ update_counts[tx[i].d] = Dict0

\* C4: in the mapping list returned by process_client_table, every new code
\* is absent from the key values the primary table held, and the new codes
\* are pairwise distinct.
C4_NewCodesCollisionFree ==
    \A i \in Renames :
        tx[i].failed = 0 =>
            LET original == Range(KeyValues(tx[i].pre[client_table]))
            IN \A a \in DOMAIN df_mappings :
                  /\ df_mappings[a].NEW_CODE \notin original
                  /\ \A b \in DOMAIN df_mappings :
                        a # b => df_mappings[a].NEW_CODE # df_mappings[b].NEW_CODE

\* C4 witness: two flagged codes with the same base in a table that already
\* holds the first candidate, so that both kinds of collision were avoided
C4_Witness_SharedBase ==
    /\ Renames # {}
    /\ Len(df_mappings) >= 2
    /\ df_mappings[1].OLD_CODE = c1A
    /\ df_mappings[2].OLD_CODE = c1B
    /\ <<"9", "1">> \in Range(KeyValues(tx[1].pre[client_table]))

\* C6: every match record stands for a cell whose whole value equals the old
\* code of a mapping, carries that old code as found value and that
\* mapping's new code as new value; the record's row is a row of the table.
C6_ExactMatchOnly ==
    \A d \in Databases : \A p \in RecordsOf(d) :
        LET t == p[1]
            rec == p[2]
        IN /\ rec.row[rec.FOUND_FIELD] = rec.FOUND_VALUE
           /\ \E a \in DOMAIN df_mappings :
                 /\ df_mappings[a].OLD_CODE = rec.FOUND_VALUE
                 /\ df_mappings[a].NEW_CODE = rec.NEW_VALUE
           /\ pc = UpdatePc(d) =>
                 \E i \in DOMAIN db[d][t] :
                     \A c \in DOMAIN rec.row : db[d][t][i][c] = rec.row[c]

\* C6 witness: the scan of orders found matches while a row of the table
\* holds a value that only contains the flagged code 1A
C6_Witness_SubstringCell ==
    /\ pc = "update_0"
    /\ "orders" \in DOMAIN df_matches[0]
    /\ \E a \in DOMAIN df_mappings : df_mappings[a].OLD_CODE = c1A
    /\ \E i \in DOMAIN db[0]["orders"] :
          /\ db[0]["orders"][i]["ref_code"] = cX1A
          /\ Contains(db[0]["orders"][i]["ref_code"], c1A)

\* C7: a table without configured key columns never appears in the match
\* result and is never changed by the cross-table update.
C7_NoKeyColumnsNoMatches ==
    \A d \in Databases : \A t \in Range(TableNames(d)) :
        KeysFor(db_keys[d], t) = <<>> =>
            /\ t \notin DOMAIN df_matches[d]
            /\ \A i \in Updates : tx[i].d = d => tx[i].post[t] = tx[i].pre[t]

\* C7 witness: orders has no key columns configured, its columns were read,
\* and one of its candidate cells equals a flagged code
C7_Witness_MatchingCellsNoKeys ==
    /\ pc = "update_0"
    /\ "orders" \notin DOMAIN db_keys[0]
    /\ "orders" \in inspected
    /\ \E i \in DOMAIN db[0]["orders"], a \in DOMAIN df_mappings :
          db[0]["orders"][i]["ref_code"] = df_mappings[a].OLD_CODE

\* C8: a table without rows is skipped before its columns are read and is
\* no key of the match result; no table of the result has an empty list.
C8_EmptyTablesExcluded ==
    /\ ScannedDb \in Databases =>
          \A t \in inspected :
              /\ t \in Range(TableNames(ScannedDb))
              /\ db[ScannedDb][t] # <<>>
    /\ \A d \in Databases :
          /\ pc = UpdatePc(d) =>
                \A t \in DOMAIN df_matches[d] : db[d][t] # <<>>
          /\ \A t \in DOMAIN df_matches[d] : df_matches[d][t] # <<>>

\* C8 witness: the scan ran over a database whose orders table is empty
\* although it has key columns configured and flagged codes exist
C8_Witness_EmptyOrders ==
    /\ pc = "update_0"
    /\ db[0]["orders"] = <<>>
    /\ "orders" \in DOMAIN db_keys[0]
    /\ df_mappings # <<>>
    /\ "clients" \in inspected

\* The rows of table t that the transaction tx[i] changed
RowsModified(i, t) ==
    {r \in DOMAIN tx[i].pre[t] : tx[i].post[t][r] # tx[i].pre[t][r]}

\* C9: after an update transaction in which no statement failed, every cell
\* named by a match record holds the new value, and the count reported for
\* each table is the number of rows of the table that were modified.
C9_CellsUpdatedAndRowsCounted ==
    \A i \in Updates :
        tx[i].failed = 0 =>
            LET d == tx[i].d
            IN /\ \A p \in RecordsOf(d) : \A r \in DOMAIN tx[i].pre[p[1]] :
                     ( /\ \A k \in Range(KeysFor(db_keys[d], p[1])) :
                              tx[i].pre[p[1]][r][k] = p[2].row[k]
                       /\ tx[i].pre[p[1]][r][p[2].FOUND_FIELD] = p[2].FOUND_VALUE )
                     => tx[i].post[p[1]][r][p[2].FOUND_FIELD] = p[2].NEW_VALUE
               /\ DOMAIN update_counts[d] = DOMAIN df_matches[d]
               /\ \A t \in DOMAIN update_counts[d] :
                     update_counts[d][t] = Cardinality(RowsModified(i, t))

\* C10: if a statement of the primary rename fails, no rename is committed
\* and the failure reaches the caller; otherwise one UPDATE was issued per
\* mapping, and there is one mapping per flagged row.
C10_PrimaryRenameAtomic ==
    \A i \in Renames :
        /\ tx[i].failed # 0 =>
              /\ tx[i].post = tx[i].pre
              /\ db[0] = tx[i].pre
              /\ Len(tx) = 1
              /\ pc = "raised"
              /\ exception = "DBAPIError"
              /\ df_mappings = <<>>
        /\ tx[i].failed = 0 =>
              /\ tx[i].issued = Len(df_mappings)
              /\ Len(df_mappings) = Len(ErroneousCodes(tx[i].pre[client_table]))

\* C10 witness: the second rename statement failed after the first had
\* changed a row, and the run stopped
C10_Witness_SecondRenameFails ==
    /\ pc = "raised"
    /\ \E i \in Renames :
          /\ tx[i].failed = 2
          /\ RenameRows(tx[i].pre[client_table],
                        GenerateMappings(tx[i].pre[client_table]).value[1])
                 # tx[i].pre[client_table]
-----------------------------------------------------------------------------
(* Failure containment of the scan, checked under Spec *)

\* The run ended inside find_code_matches_in_db: the primary rename had
\* succeeded, and update_old_codes_in_db lets no exception out
ScanAborted ==
    /\ pc = "raised"
    /\ Renames # {}
    /\ \A i \in Renames : tx[i].failed = 0

\* What the scan of table t of database d yields when nothing fails
CleanScan(d, t) == ScanTable(t, db[d][t], db_keys[d], df_mappings, "none")

\* C11: a failure while counting the rows, reading the columns or fetching
\* the rows of one table never aborts the scan: the call returns, and every
\* table of its result carries exactly the matches of that table.
C11_ScanFailuresContained ==
    /\ ~ScanAborted
    /\ \A d \in Databases :
          pc = UpdatePc(d) =>
              \A t \in DOMAIN df_matches[d] :
                  /\ CleanScan(d, t).kind = "matches"
                  /\ df_matches[d][t] = CleanScan(d, t).matches
-----------------------------------------------------------------------------
(* Exhausted generation, checked under SpecMap *)

MappedCodes == {df_mappings[a].OLD_CODE : a \in DOMAIN df_mappings}

\* C12: when generation is exhausted for a flagged row, process_client_table
\* raises without a mapping and the run stops before any UPDATE is issued in
\* either database; when it returns, every flagged key has a mapping.
C12_ExhaustionAbortsRun ==
    /\ exception = "ValueError" =>
          /\ pc = "raised"
          /\ df_mappings = <<>>
          /\ tx = <<>>
          /\ df_matches = Indexed(Dict0, Dict0)
          /\ update_counts = Indexed(Dict0, Dict0)
    /\ (pc # "process_client_table" /\ exception # "ValueError") =>
          /\ Renames = {1}
          /\ tx[1].failed = 0 =>
                \A r \in DOMAIN tx[1].pre[client_table] :
                    has_trailing_letter(tx[1].pre[client_table][r][client_key_field])
                        => tx[1].pre[client_table][r][client_key_field] \in MappedCodes

\* C12 witness: the run stopped on an exhausted row after an earlier flagged
\* row had received a new code
C12_Witness_ExhaustedAfterFirst ==
    /\ exception = "ValueError"
    /\ LET rows == db[0][client_table]
           flagged == ErroneousCodes(rows)
       IN /\ Len(flagged) >= 2
          /\ generate_unique_code(flagged[1], Range(KeyValues(rows))).kind = "return"
-----------------------------------------------------------------------------
(* Which keys are rewritten, checked under SpecMap *)

\* C13: the mapping list has one entry per primary-table row whose key ends
\* in a letter, in row order, and none for any other key; after a successful
\* primary rename every key not ending in a letter is unchanged and every
\* key ending in a letter is replaced by its new code.
C13_OnlyTrailingLetterKeysRewritten ==
    \A i \in Renames :
        tx[i].failed = 0 =>
            LET before == KeyValues(tx[i].pre[client_table])
                after == KeyValues(tx[i].post[client_table])
            IN /\ [a \in DOMAIN df_mappings |-> df_mappings[a].OLD_CODE]
                      = SelectSeq(before, EndsInLetter)
               /\ \A r \in DOMAIN before :
                     IF EndsInLetter(before[r])
                     THEN \E a \in DOMAIN df_mappings :
                              /\ df_mappings[a].OLD_CODE = before[r]
                              /\ after[r] = df_mappings[a].NEW_CODE
                     ELSE after[r] = before[r]
-----------------------------------------------------------------------------
(* Candidate columns, checked under Spec *)

\* Column c of table t of database d is a candidate column: textual declared
\* type, declared length from 6 to 20, not a configured key column
IsCandidateColumn(d, t, c) ==
    /\ \E k \in DOMAIN Columns(t) :
          /\ Columns(t)[k].name = c
          /\ Columns(t)[k].type \in {"CHAR", "VARCHAR", "TEXT", "LONGCHAR"}
          /\ Columns(t)[k].length >= 6
          /\ Columns(t)[k].length <= 20
    /\ c \notin Range(KeysFor(db_keys[d], t))

\* C14: the found field of every match record is a candidate column of its
\* table, every table of the result has a candidate column, and the
\* cross-table update changes no cell outside the candidate columns.
C14_OnlyCandidateColumnsTouched ==
    /\ \A d \in Databases :
          \A t \in DOMAIN df_matches[d] :
              /\ \A j \in DOMAIN df_matches[d][t] :
                    IsCandidateColumn(d, t, df_matches[d][t][j].FOUND_FIELD)
              /\ \E c \in Range(ColumnNames(Columns(t))) : IsCandidateColumn(d, t, c)
    /\ \A i \in Updates :
          \A t \in Range(TableNames(tx[i].d)) :
              LET others == {c \in Range(ColumnNames(Columns(t))) :
                                ~IsCandidateColumn(tx[i].d, t, c)}
              IN \/ tx[i].post[t] = tx[i].pre[t]
                 \/ \A r \in DOMAIN tx[i].pre[t] :
                       \A c \in others : tx[i].post[t][r][c] = tx[i].pre[t][r][c]

\* C14 witness: an update changed orders while alt_code, configured as a key
\* column, and the columns memo and tag held flagged codes
C14_Witness_FlaggedCodesOutsideCandidates ==
    \E i \in Updates :
        /\ tx[i].d = 0
        /\ tx[i].failed = 0
        /\ RowsModified(i, "orders") # {}
        /\ db_keys[0]["orders"] = <<"order_id", "alt_code">>
        /\ \E r \in DOMAIN tx[i].pre["orders"] :
              /\ tx[i].pre["orders"][r]["alt_code"] \in MappedCodes
              /\ tx[i].pre["orders"][r]["memo"] \in MappedCodes
              /\ tx[i].pre["orders"][r]["tag"] \in MappedCodes

====
